---- MODULE Spec2Model ----
(***************************************************************************)
(* Model of the two maintenance scripts of print-24-updated:               *)
(*                                                                         *)
(*   patch_order_controller.py  reads orderController.js, replaces two     *)
(*                              literal blocks (old1 -> new1, old2 ->      *)
(*                              new2) and writes the file back;            *)
(*   client/fix_jsx.py          reads GlossProductSelection.tsx, splits it *)
(*                              into lines, edits the lines at the         *)
(*                              absolute indices 5084, 5092 and 5099,      *)
(*                              joins the lines and writes the file back.  *)
(*                                                                         *)
(* Text is modelled character by character: a Python str is a sequence of  *)
(* one-character strings, a list of lines is a sequence of such sequences. *)
(* The file at file_path is a sequence of characters on disk; reading and  *)
(* writing go through Python's text mode (open(..., 'r'/'w',               *)
(* encoding='utf-8') with the default newline=None), which translates line *)
(* endings in both directions.                                             *)
(*                                                                         *)
(* Python indices are 0-based, TLA+ sequences are 1-based: the element     *)
(* lines[i] of the scripts is ls[i + 1] here.                              *)
(***************************************************************************)
EXTENDS Integers, Sequences, FiniteSets, TLC

----------------------------------------------------------------------------
(* Characters and literals of the scripts *)

LF == "\n"

CR == "\r"

SPACE == " "

TAB == "\t"

(* the characters str.strip() removes that occur in the modelled inputs *)
Whitespace == {SPACE, TAB, LF, CR}

(* old1, patch_order_controller.py lines 9-11 (117 characters):
     |      } else if (!needDesigner) {|
     |        return res.status(400).json({ error: "Front image is required." });|
     |      }|
*)
old1 ==
  << " ", " ", " ", " ", " ", " ", "}", " ", "e", "l", "s", "e", " ", "i", "f", " ", "(", "!",
     "n", "e", "e", "d", "D", "e", "s", "i", "g", "n", "e", "r", ")", " ", "{", "\n", " ", " ",
     " ", " ", " ", " ", " ", " ", "r", "e", "t", "u", "r", "n", " ", "r", "e", "s", ".", "s",
     "t", "a", "t", "u", "s", "(", "4", "0", "0", ")", ".", "j", "s", "o", "n", "(", "{", " ",
     "e", "r", "r", "o", "r", ":", " ", "\"", "F", "r", "o", "n", "t", " ", "i", "m", "a", "g",
     "e", " ", "i", "s", " ", "r", "e", "q", "u", "i", "r", "e", "d", ".", "\"", " ", "}", ")",
     ";", "\n", " ", " ", " ", " ", " ", " ", "}" >>

(* new1, patch_order_controller.py lines 12-14 (162 characters):
     |      } else if (!needDesigner && !req.body.needDesigner) {|
     |        return res.status(400).json({ error: "Front image is required for regular orders." });|
     |      }|
*)
new1 ==
  << " ", " ", " ", " ", " ", " ", "}", " ", "e", "l", "s", "e", " ", "i", "f", " ", "(", "!",
     "n", "e", "e", "d", "D", "e", "s", "i", "g", "n", "e", "r", " ", "&", "&", " ", "!", "r",
     "e", "q", ".", "b", "o", "d", "y", ".", "n", "e", "e", "d", "D", "e", "s", "i", "g", "n",
     "e", "r", ")", " ", "{", "\n", " ", " ", " ", " ", " ", " ", " ", " ", "r", "e", "t", "u",
     "r", "n", " ", "r", "e", "s", ".", "s", "t", "a", "t", "u", "s", "(", "4", "0", "0", ")",
     ".", "j", "s", "o", "n", "(", "{", " ", "e", "r", "r", "o", "r", ":", " ", "\"", "F", "r",
     "o", "n", "t", " ", "i", "m", "a", "g", "e", " ", "i", "s", " ", "r", "e", "q", "u", "i",
     "r", "e", "d", " ", "f", "o", "r", " ", "r", "e", "g", "u", "l", "a", "r", " ", "o", "r",
     "d", "e", "r", "s", ".", "\"", " ", "}", ")", ";", "\n", " ", " ", " ", " ", " ", " ",
     "}" >>

(* old2, patch_order_controller.py lines 17-19 (96 characters):
     |    } else {|
     |      return res.status(400).json({ error: "Uploaded design is required." });|
     |    }|
*)
old2 ==
  << " ", " ", " ", " ", "}", " ", "e", "l", "s", "e", " ", "{", "\n", " ", " ", " ", " ", " ",
     " ", "r", "e", "t", "u", "r", "n", " ", "r", "e", "s", ".", "s", "t", "a", "t", "u", "s",
     "(", "4", "0", "0", ")", ".", "j", "s", "o", "n", "(", "{", " ", "e", "r", "r", "o", "r",
     ":", " ", "\"", "U", "p", "l", "o", "a", "d", "e", "d", " ", "d", "e", "s", "i", "g", "n",
     " ", "i", "s", " ", "r", "e", "q", "u", "i", "r", "e", "d", ".", "\"", " ", "}", ")", ";",
     "\n", " ", " ", " ", " ", "}" >>

(* new2, patch_order_controller.py lines 20-26 (389 characters):
     |    } else {|
     |      // If we don't have uploadedDesign, we only allow it if needDesigner is true |
     |      const isDesignerOrder = needDesigner === true || needDesigner === "true" || req.body.needDesigner === true || req.body.needDesigner === "true";|
     |      if (!isDesignerOrder) {|
     |        return res.status(400).json({ error: "Uploaded design is required for regular orders." });|
     |      }|
     |    }|
*)
new2 ==
  << " ", " ", " ", " ", "}", " ", "e", "l", "s", "e", " ", "{", "\n", " ", " ", " ", " ", " ",
     " ", "/", "/", " ", "I", "f", " ", "w", "e", " ", "d", "o", "n", "'", "t", " ", "h", "a",
     "v", "e", " ", "u", "p", "l", "o", "a", "d", "e", "d", "D", "e", "s", "i", "g", "n", ",",
     " ", "w", "e", " ", "o", "n", "l", "y", " ", "a", "l", "l", "o", "w", " ", "i", "t", " ",
     "i", "f", " ", "n", "e", "e", "d", "D", "e", "s", "i", "g", "n", "e", "r", " ", "i", "s",
     " ", "t", "r", "u", "e", " ", "\n", " ", " ", " ", " ", " ", " ", "c", "o", "n", "s", "t",
     " ", "i", "s", "D", "e", "s", "i", "g", "n", "e", "r", "O", "r", "d", "e", "r", " ", "=",
     " ", "n", "e", "e", "d", "D", "e", "s", "i", "g", "n", "e", "r", " ", "=", "=", "=", " ",
     "t", "r", "u", "e", " ", "|", "|", " ", "n", "e", "e", "d", "D", "e", "s", "i", "g", "n",
     "e", "r", " ", "=", "=", "=", " ", "\"", "t", "r", "u", "e", "\"", " ", "|", "|", " ",
     "r", "e", "q", ".", "b", "o", "d", "y", ".", "n", "e", "e", "d", "D", "e", "s", "i", "g",
     "n", "e", "r", " ", "=", "=", "=", " ", "t", "r", "u", "e", " ", "|", "|", " ", "r", "e",
     "q", ".", "b", "o", "d", "y", ".", "n", "e", "e", "d", "D", "e", "s", "i", "g", "n", "e",
     "r", " ", "=", "=", "=", " ", "\"", "t", "r", "u", "e", "\"", ";", "\n", " ", " ", " ",
     " ", " ", " ", "i", "f", " ", "(", "!", "i", "s", "D", "e", "s", "i", "g", "n", "e", "r",
     "O", "r", "d", "e", "r", ")", " ", "{", "\n", " ", " ", " ", " ", " ", " ", " ", " ", "r",
     "e", "t", "u", "r", "n", " ", "r", "e", "s", ".", "s", "t", "a", "t", "u", "s", "(", "4",
     "0", "0", ")", ".", "j", "s", "o", "n", "(", "{", " ", "e", "r", "r", "o", "r", ":", " ",
     "\"", "U", "p", "l", "o", "a", "d", "e", "d", " ", "d", "e", "s", "i", "g", "n", " ", "i",
     "s", " ", "r", "e", "q", "u", "i", "r", "e", "d", " ", "f", "o", "r", " ", "r", "e", "g",
     "u", "l", "a", "r", " ", "o", "r", "d", "e", "r", "s", ".", "\"", " ", "}", ")", ";",
     "\n", " ", " ", " ", " ", " ", " ", "}", "\n", " ", " ", " ", " ", "}" >>
(* '</>', the tag fix_jsx.py removes (lines 20, 21 and 33) *)
Tag == << "<", "/", ">" >>

(* '</ >', the substring the guard of line 32 looks for *)
TagSpaced == << "<", "/", " ", ">" >>

(* ')}', compared with the stripped line 5093 (line 26) *)
CloseParenBrace == << ")", "}" >>

(* '' *)
EmptyStr == << >>

Idx5084 == 5084

Idx5092 == 5092

Idx5099 == 5099

----------------------------------------------------------------------------
(* Python string and list primitives used by the scripts *)

Min(S) == CHOOSE x \in S : \A y \in S : x <= y

Max(S) == CHOOSE x \in S : \A y \in S : y <= x

(* s[i : i + len(sub)] == sub, i 0-based *)
MatchAt(s, sub, i) ==
  /\ i + Len(sub) <= Len(s)
  /\ \A k \in 1..Len(sub) : s[i + k] = sub[k]

(* s.find(sub, start): the lowest 0-based index >= start where sub occurs, -1 if none *)
Find(s, sub, start) ==
  LET hits == { i \in start..(Len(s) - Len(sub)) : MatchAt(s, sub, i) }
  IN  IF hits = {} THEN -1 ELSE Min(hits)

(* sub in s *)
Contains(sub, s) == Find(s, sub, 0) # -1

(* s.replace(old, new) for a non-empty old: scan from the left, replace each
   occurrence found and resume the search right after the replaced one, so
   occurrences are replaced without overlap and the inserted text is never
   searched again. *)
RECURSIVE ReplaceFrom(_, _, _, _)
ReplaceFrom(s, old, new, start) ==
  LET i == Find(s, old, start)
  IN  IF i = -1
      THEN SubSeq(s, start + 1, Len(s))
      ELSE SubSeq(s, start + 1, i) \o new \o ReplaceFrom(s, old, new, i + Len(old))

(* s.replace(old, new, 1), the variant the comment on line 30 of
   patch_order_controller.py considers: only the first occurrence *)
ReplaceFirst(s, old, new) ==
  LET i == Find(s, old, 0)
  IN  IF i = -1 THEN s
      ELSE SubSeq(s, 1, i) \o new \o SubSeq(s, i + Len(old) + 1, Len(s))

StrReplace(s, old, new) == ReplaceFrom(s, old, new, 0)

(* s.strip() *)
Strip(s) ==
  LET keep == { i \in 1..Len(s) : s[i] \notin Whitespace }
  IN  IF keep = {} THEN EmptyStr ELSE SubSeq(s, Min(keep), Max(keep))

(* s.split('\n'): the pieces between the line feeds; k line feeds give k + 1
   pieces, the empty string gives one empty piece.  Computed by halving so
   that documents of several thousand lines are within reach. *)
RECURSIVE Split(_)
Split(s) ==
  IF Len(s) = 0 THEN << EmptyStr >>
  ELSE IF Len(s) = 1 THEN (IF s[1] = LF THEN << EmptyStr, EmptyStr >> ELSE << s >>)
  ELSE LET m == Len(s) \div 2
           L == Split(SubSeq(s, 1, m))
           R == Split(SubSeq(s, m + 1, Len(s)))
       IN  SubSeq(L, 1, Len(L) - 1) \o << L[Len(L)] \o R[1] >> \o Tail(R)

(* '\n'.join(ls) *)
RECURSIVE Join(_)
Join(ls) ==
  IF Len(ls) = 0 THEN EmptyStr
  ELSE IF Len(ls) = 1 THEN ls[1]
  ELSE LET m == Len(ls) \div 2
       IN  Join(SubSeq(ls, 1, m)) \o << LF >> \o Join(SubSeq(ls, m + 1, Len(ls)))

(* Text-mode read (newline=None): universal newlines, "\r\n" and a lone "\r"
   both arrive in the program as "\n". *)
RECURSIVE TranslateIn(_)
TranslateIn(b) ==
  IF Len(b) = 0 THEN EmptyStr
  ELSE IF Len(b) = 1 THEN (IF b[1] = CR THEN << LF >> ELSE b)
  ELSE LET m == Len(b) \div 2
           left == SubSeq(b, 1, m)
           right == SubSeq(b, m + 1, Len(b))
       IN  IF b[m] = CR /\ b[m + 1] = LF
           THEN TranslateIn(left) \o TranslateIn(Tail(right))
           ELSE TranslateIn(left) \o TranslateIn(right)

Decode(b) == IF \A i \in 1..Len(b) : b[i] # CR THEN b ELSE TranslateIn(b)

(* Text-mode write (newline=None): every "\n" is written as os.linesep. *)
RECURSIVE TranslateOut(_, _)
TranslateOut(s, sep) ==
  IF Len(s) = 0 THEN EmptyStr
  ELSE IF Len(s) = 1 THEN (IF s[1] = LF THEN sep ELSE s)
  ELSE LET m == Len(s) \div 2
       IN  TranslateOut(SubSeq(s, 1, m), sep) \o TranslateOut(SubSeq(s, m + 1, Len(s)), sep)

Encode(s, sep) == IF sep = << LF >> THEN s ELSE TranslateOut(s, sep)

(* open(file_path, 'w') truncates the file to length zero *)
Truncate(data) == EmptyStr

(* a write that would replace the whole file, whatever it holds *)
WriteWhole(data, bytes) == bytes

(* the bytes of a freshly opened handle go to offset 0 of the file; what the
   file holds beyond them stays *)
WriteAt(data, bytes) == bytes \o SubSeq(data, Len(bytes) + 1, Len(data))

----------------------------------------------------------------------------
(* patch_order_controller.py, lines 33-34 *)

(* line 33: content.replace(old1, new1) *)
Replace1(c) == StrReplace(c, old1, new1)

(* line 34: patched_content.replace(old2, new2) *)
Replace2(c) == StrReplace(c, old2, new2)

(* the two replacements in the order of the script *)
PatchRules(c) == Replace2(Replace1(c))

----------------------------------------------------------------------------
(* client/fix_jsx.py, lines 20-33 *)

(* the value of an out-of-range subscript: Python raises IndexError *)
IndexError == << "IndexError" >>

(* ls[i] for i >= 0 *)
Subscript(ls, i) == IF i < Len(ls) THEN ls[i + 1] ELSE IndexError

(* the outcome of evaluating `sub in x`, x the result of a subscript *)
InTest(sub, x) ==
  IF x = IndexError THEN "IndexError"
  ELSE IF Contains(sub, x) THEN "True" ELSE "False"

(* line 20 without its bounds check: '</>' in lines[5084] *)
Cond5085Unguarded(ls) == InTest(Tag, Subscript(ls, Idx5084))

(* line 20: 5084 < len(lines) and '</>' in lines[5084]   (`and` short-circuits) *)
Cond5085(ls) ==
  IF ~(Idx5084 < Len(ls)) THEN "False" ELSE InTest(Tag, Subscript(ls, Idx5084))

(* line 21: lines[5084] = lines[5084].replace('</>', '') *)
EditLine5085(ls) == [ls EXCEPT ![Idx5084 + 1] = StrReplace(@, Tag, EmptyStr)]

(* lines 24-25: 5092 < len(lines), then lines[5092].strip() == ')}' *)
Cond5093(ls) ==
  IF ~(Idx5092 < Len(ls)) THEN "False"
  ELSE LET x == Subscript(ls, Idx5092)
       IN  IF x = IndexError THEN "IndexError"
           ELSE IF Strip(x) = CloseParenBrace THEN "True" ELSE "False"

(* what the comment on line 23 announces, "remove the duplicate )}": del lines[5092] *)
EditLine5093Remove(ls) == SubSeq(ls, 1, Idx5092) \o SubSeq(ls, Idx5092 + 2, Len(ls))

(* lines 26-28: the branch only holds `pass` *)
EditLine5093(ls) == ls

(* line 32: 5099 < len(lines) and '</ >' in lines[5099] *)
Cond5100(ls) ==
  IF ~(Idx5099 < Len(ls)) THEN "False" ELSE InTest(TagSpaced, Subscript(ls, Idx5099))

(* line 33: lines[5099] = lines[5099].replace('</>', '') *)
EditLine5100(ls) == [ls EXCEPT ![Idx5099 + 1] = StrReplace(@, Tag, EmptyStr)]

----------------------------------------------------------------------------
(* Bounds of the model and the inputs drawn within them *)

(* patch_order_controller: the file is a concatenation of at most MaxPieces pieces *)
MaxPieces == 3

(* files enumerated exhaustively: every text of at most MaxLen characters *)
MaxLen == 3

(* fix_jsx: a targeted line is a concatenation of at most MaxTokens tokens *)
MaxTokens == 3

(* two instances at once: every text of at most MaxRaceLen characters *)
MaxRaceLen == 2

RECURSIVE Concat(_)
Concat(parts) == IF Len(parts) = 0 THEN EmptyStr ELSE Head(parts) \o Concat(Tail(parts))

SeqsUpTo(S, n) == UNION { [1..k -> S] : k \in 0..n }

(* old1 and old2 without their leading "      }" and "    }": appended to a
   block that ends with the same characters they complete another block *)
Rest1 == SubSeq(old1, 8, Len(old1))

Rest2 == SubSeq(old2, 6, Len(old2))

PatchPieces == { old1, old2, new1, Rest1, Rest2, << "x" >> }

PatchFiles == { Concat(ps) : ps \in SeqsUpTo(PatchPieces, MaxPieces) }

SmallFiles == SeqsUpTo({ "a", LF, CR }, MaxLen)

TagTokens == { << "<" >>, Tag, << "/", ">" >>, TagSpaced }

LineTexts == { Concat(ts) : ts \in SeqsUpTo(TagTokens, MaxTokens) }

(* a document of n lines, empty except for the three targeted lines *)
Doc(n, a, b, c) ==
  [ i \in 1..n |-> IF i = Idx5084 + 1 THEN a
                   ELSE IF i = Idx5092 + 1 THEN b
                   ELSE IF i = Idx5099 + 1 THEN c
                   ELSE EmptyStr ]

Line5093Texts == { EmptyStr, << SPACE, SPACE, ")", "}", SPACE >> }

(* line counts on either side of each bounds check *)
BoundaryCounts ==
  { Idx5084, Idx5084 + 1, Idx5092, Idx5092 + 1, Idx5099, Idx5099 + 1, Idx5099 + 2 }

LongDocs ==
  { Join(Doc(n, t, b, t)) :
      n \in BoundaryCounts, t \in { Tag, TagSpaced \o Tag }, b \in Line5093Texts }
  \cup
  { Join(Doc(n, t, << SPACE, SPACE, ")", "}", SPACE >>, t)) :
      n \in { Idx5099 + 1 }, t \in LineTexts }

JsxFiles == LongDocs \cup SmallFiles

RaceFiles == SeqsUpTo({ "a", LF }, MaxRaceLen) \cup { old1 }

LineSeps == { << LF >>, << CR, LF >> }

----------------------------------------------------------------------------
(* State *)

(* The instances of a script running against the same file_path. *)
Instances == { 1, 2 }

VARIABLES
  fileExists,       \* whether file_path exists on disk
  fileData,         \* the characters stored at file_path
  linesep,          \* os.linesep of the platform the scripts run on
  original,         \* the file as it was before any instance started
  script,           \* script[p]: which script instance p runs
  pc,               \* pc[p]: the statement instance p executes next
  content,          \* content[p]: the variable `content`
  lines,            \* lines[p]: the variable `lines` (fix_jsx)
  patched_content,  \* patched_content[p]: the variable of that name (patch_order_controller)
  stdout,           \* stdout[p]: the messages printed so far
  error,            \* error[p]: the exception that ended the run, "" if none
  trace             \* the opens for writing and the writes on file_path, in order

vars == << fileExists, fileData, linesep, original, script, pc, content, lines,
           patched_content, stdout, error, trace >>

PATCH == "patch_order_controller"

JSX == "fix_jsx"

(* the string handed to f.write: line 37 of either script *)
Output(p) == IF script[p] = PATCH THEN patched_content[p] ELSE content[p]

(* the statement that follows the read, and the one that follows the write *)
AfterRead(p) == IF script[p] = PATCH THEN "replace1" ELSE "split"

AfterWrite(p) == IF script[p] = PATCH THEN "print_patched" ELSE "print_fixed"

(* an exception caught and ignored: the run goes on to the write-back *)
RaiseSwallowed(p, exc) ==
  /\ pc' = [pc EXCEPT ![p] = "open_w"]
  /\ error' = [error EXCEPT ![p] = exc]

(* an exception nobody catches: the run of instance p ends here *)
Raise(p, exc) ==
  /\ pc' = [pc EXCEPT ![p] = "terminated"]
  /\ error' = [error EXCEPT ![p] = exc]

Goto(p, label) ==
  /\ pc' = [pc EXCEPT ![p] = label]
  /\ UNCHANGED error

InitLocals ==
  /\ content = [p \in Instances |-> EmptyStr]
  /\ lines = [p \in Instances |-> << >>]
  /\ patched_content = [p \in Instances |-> EmptyStr]
  /\ stdout = [p \in Instances |-> << >>]
  /\ error = [p \in Instances |-> ""]
  /\ trace = << >>

InitDisk(files) ==
  /\ linesep \in LineSeps
  /\ \/ /\ fileExists = TRUE
        /\ fileData \in files
     \/ /\ fileExists = FALSE
        /\ fileData = EmptyStr
  /\ original = [exists |-> fileExists, data |-> fileData]

(* one run of one script; the second instance does not exist *)
Init ==
  /\ \/ /\ script = [p \in Instances |-> IF p = 1 THEN PATCH ELSE "none"]
        /\ InitDisk(PatchFiles \cup SmallFiles)
     \/ /\ script = [p \in Instances |-> IF p = 1 THEN JSX ELSE "none"]
        /\ InitDisk(JsxFiles)
  /\ pc = [p \in Instances |-> IF p = 1 THEN "read" ELSE "absent"]
  /\ InitLocals

(* two instances of the same script started against the same path *)
InitRace ==
  /\ \E s \in { PATCH, JSX } : script = [p \in Instances |-> s]
  /\ InitDisk(RaceFiles)
  /\ pc = [p \in Instances |-> "read"]
  /\ InitLocals

----------------------------------------------------------------------------
(* Reading: lines 5-6 of either script *)

ReadFile(p) ==
  /\ pc[p] = "read"
  /\ fileExists
  /\ content' = [content EXCEPT ![p] = Decode(fileData)]
  /\ Goto(p, AfterRead(p))
  /\ UNCHANGED << fileExists, fileData, linesep, original, script, lines,
                  patched_content, stdout, trace >>

(* open(file_path, 'r') on a path that does not exist *)
ReadNotFound(p) ==
  /\ pc[p] = "read"
  /\ ~fileExists
  /\ Raise(p, "FileNotFoundError")
  /\ UNCHANGED << fileExists, fileData, linesep, original, script, content, lines,
                  patched_content, stdout, trace >>

(* any other failure of open or f.read(): permissions, bytes that are not UTF-8 *)
ReadError(p) ==
  /\ pc[p] = "read"
  /\ fileExists
  /\ \E exc \in { "PermissionError", "UnicodeDecodeError" } : Raise(p, exc)
  /\ UNCHANGED << fileExists, fileData, linesep, original, script, content, lines,
                  patched_content, stdout, trace >>

ReadErrors == { "FileNotFoundError", "PermissionError", "UnicodeDecodeError" }

----------------------------------------------------------------------------
(* patch_order_controller.py *)

ApplyReplace1(p) ==
  /\ pc[p] = "replace1"
  /\ patched_content' = [patched_content EXCEPT ![p] = Replace1(content[p])]
  /\ Goto(p, "replace2")
  /\ UNCHANGED << fileExists, fileData, linesep, original, script, content, lines,
                  stdout, trace >>

ApplyReplace2(p) ==
  /\ pc[p] = "replace2"
  /\ patched_content' = [patched_content EXCEPT ![p] = Replace2(patched_content[p])]
  /\ Goto(p, "open_w")
  /\ UNCHANGED << fileExists, fileData, linesep, original, script, content, lines,
                  stdout, trace >>

ReportPatched(p) ==
  /\ pc[p] = "print_patched"
  /\ stdout' = [stdout EXCEPT ![p] = Append(@, "Successfully patched orderController.js")]
  /\ Goto(p, "done")
  /\ UNCHANGED << fileExists, fileData, linesep, original, script, content, lines,
                  patched_content, trace >>

----------------------------------------------------------------------------
(* client/fix_jsx.py *)

SplitLines(p) ==
  /\ pc[p] = "split"
  /\ lines' = [lines EXCEPT ![p] = Split(content[p])]
  /\ Goto(p, "fix5085")
  /\ UNCHANGED << fileExists, fileData, linesep, original, script, content,
                  patched_content, stdout, trace >>

(* an `if` over the list of lines: the condition may raise, hold or fail *)
GuardedEdit(p, cond, edited, next) ==
  /\ IF cond = "IndexError"
     THEN /\ Raise(p, "IndexError")
          /\ UNCHANGED lines
     ELSE /\ lines' = [lines EXCEPT ![p] = IF cond = "True" THEN edited ELSE @]
          /\ Goto(p, next)
  /\ UNCHANGED << fileExists, fileData, linesep, original, script, content,
                  patched_content, stdout, trace >>

FixLine5085(p) ==
  /\ pc[p] = "fix5085"
  /\ GuardedEdit(p, Cond5085(lines[p]), EditLine5085(lines[p]), "fix5093")

FixLine5093(p) ==
  /\ pc[p] = "fix5093"
  /\ GuardedEdit(p, Cond5093(lines[p]), EditLine5093(lines[p]), "fix5100")

FixLine5100(p) ==
  /\ pc[p] = "fix5100"
  /\ GuardedEdit(p, Cond5100(lines[p]), EditLine5100(lines[p]), "join")

JoinLines(p) ==
  /\ pc[p] = "join"
  /\ content' = [content EXCEPT ![p] = Join(lines[p])]
  /\ Goto(p, "open_w")
  /\ UNCHANGED << fileExists, fileData, linesep, original, script, lines,
                  patched_content, stdout, trace >>

ReportFixed(p) ==
  /\ pc[p] = "print_fixed"
  /\ stdout' = [stdout EXCEPT ![p] = Append(@, "Fixed JSX syntax errors")]
  /\ Goto(p, "print_removed")
  /\ UNCHANGED << fileExists, fileData, linesep, original, script, content, lines,
                  patched_content, trace >>

ReportRemoved(p) ==
  /\ pc[p] = "print_removed"
  /\ stdout' = [stdout EXCEPT ![p] = Append(@, "Removed invalid closing tags")]
  /\ Goto(p, "done")
  /\ UNCHANGED << fileExists, fileData, linesep, original, script, content, lines,
                  patched_content, trace >>

----------------------------------------------------------------------------
(* Writing back: lines 36-37 of patch_order_controller.py, 36-38 of fix_jsx.py *)

(* open(file_path, 'w'): creates or truncates the file in place *)
OpenForWrite(p) ==
  /\ pc[p] = "open_w"
  /\ fileExists' = TRUE
  /\ fileData' = Truncate(fileData)
  /\ trace' = Append(trace, << p, "open" >>)
  /\ Goto(p, "write")
  /\ UNCHANGED << linesep, original, script, content, lines, patched_content, stdout >>

(* open(file_path, 'w') refused: read-only file, the path became a directory *)
OpenError(p) ==
  /\ pc[p] = "open_w"
  /\ Raise(p, "OpenError")
  /\ UNCHANGED << fileExists, fileData, linesep, original, script, content, lines,
                  patched_content, stdout, trace >>

(* f.write(...) and the close of the with block: the encoded text reaches the disk *)
WriteFile(p) ==
  /\ pc[p] = "write"
  /\ fileData' = WriteAt(fileData, Encode(Output(p), linesep))
  /\ trace' = Append(trace, << p, "write" >>)
  /\ Goto(p, AfterWrite(p))
  /\ UNCHANGED << fileExists, linesep, original, script, content, lines,
                  patched_content, stdout >>

(* how many of the n characters of a failing write may have reached the disk:
   any number below n; the model follows none, half and all but one *)
PartialLengths(n) == { k \in { 0, n \div 2, n - 1 } : 0 <= k /\ k < n }

(* the write fails part-way (disk full, I/O error): a proper prefix is on disk *)
WriteError(p) ==
  /\ pc[p] = "write"
  /\ LET bytes == Encode(Output(p), linesep)
     IN  \E k \in PartialLengths(Len(bytes)) :
           fileData' = WriteAt(fileData, SubSeq(bytes, 1, k))
  /\ trace' = Append(trace, << p, "write failed" >>)
  /\ Raise(p, "WriteError")
  /\ UNCHANGED << fileExists, linesep, original, script, content, lines,
                  patched_content, stdout >>

----------------------------------------------------------------------------
(* Specifications *)

Step(p) ==
  \/ ReadFile(p)
  \/ ReadNotFound(p)
  \/ ReadError(p)
  \/ ApplyReplace1(p)
  \/ ApplyReplace2(p)
  \/ ReportPatched(p)
  \/ SplitLines(p)
  \/ FixLine5085(p)
  \/ FixLine5093(p)
  \/ FixLine5100(p)
  \/ JoinLines(p)
  \/ ReportFixed(p)
  \/ ReportRemoved(p)
  \/ OpenForWrite(p)
  \/ OpenError(p)
  \/ WriteFile(p)
  \/ WriteError(p)

Next == \E p \in Instances : Step(p)

(* a single run *)
Spec == Init /\ [][Next]_vars

(* two simultaneous runs *)
SpecRace == InitRace /\ [][Next]_vars

----------------------------------------------------------------------------
(* Vocabulary of the properties *)

(* every 0-based position where sub occurs in s, overlapping ones included *)
Occurrences(s, sub) == { i \in 0..(Len(s) - Len(sub)) : MatchAt(s, sub, i) }

(* no two of the occurrences at the positions P, each m long, overlap *)
Disjoint(P, m) == \A i \in P : \A j \in P : i < j => i + m <= j

IsPrefix(a, b) == Len(a) <= Len(b) /\ SubSeq(b, 1, Len(a)) = a

(* the text the file held when the run started, as the script reads it *)
ContentRead == Decode(original.data)

(* what instance p hands to the text layer, as it reaches the disk *)
Written(p) == Encode(Output(p), linesep)

(* the if statement of line 20 as a whole: guard, then edit *)
ApplyEdit5085(ls) == IF Cond5085(ls) = "True" THEN EditLine5085(ls) ELSE ls

(* no rule of the script of instance p matches the text c *)
NoRuleMatches(p, c) ==
  IF script[p] = PATCH
  THEN ~Contains(old1, c) /\ ~Contains(old2, c)
  ELSE LET ls == Split(c)
       IN  Cond5085(ls) = "False" /\ Cond5100(ls) = "False"

Other(p) == CHOOSE q \in Instances : q # p

(* the position of an entry in the trace, 0 if it is not there *)
TraceIndex(entry) ==
  LET found == { k \in 1..Len(trace) : trace[k] = entry }
  IN  IF found = {} THEN 0 ELSE Min(found)

BothDone == \A p \in Instances : pc[p] = "done"

LastWriter == trace[Len(trace)][1]

----------------------------------------------------------------------------
(* C1.  Idempotence of the block-replace rule set: once the two replacements
   (old1 -> new1, then old2 -> new2) have run, running them again on their
   result changes nothing.
   The code does not have this property: str.replace consumes the leftmost
   occurrence and skips one that overlaps it, and the text it inserts ends
   with the same "      }" the block starts with, so the skipped occurrence
   is an occurrence again in the result. *)
PatchRulesIdempotent ==
  \A p \in Instances :
    (script[p] = PATCH /\ pc[p] \in { "open_w", "write", "print_patched", "done" })
      => PatchRules(patched_content[p]) = patched_content[p]

----------------------------------------------------------------------------
(* C2.  Re-applying the guarded edit of line 5085 is a no-op: when the line at
   index 5084 of the document read contains '</>', then after the edit the
   guard is false and applying the edit again leaves the lines unchanged.
   The code does not have this property: removing the occurrences found by
   one left-to-right scan can join the text around them into a new '</>'
   ('<</>/>' becomes '</>'). *)
Line5085EditReapplyNoOp ==
  \A p \in Instances :
    (script[p] = JSX /\ pc[p] = "fix5093" /\ Cond5085(Split(content[p])) = "True")
      => /\ Cond5085(lines[p]) = "False"
         /\ ApplyEdit5085(lines[p]) = lines[p]

----------------------------------------------------------------------------
(* C3.  Block replacement by literal substring match. *)

(* the statement as claimed: no occurrence means the text is unchanged; an
   occurrence means the text changes and every occurrence has been replaced,
   so none is left *)
AllReplaced(s, old, new, r) ==
  IF Occurrences(s, old) = {}
  THEN r = s
  ELSE r # s /\ Occurrences(r, old) = {}

(* C3 as claimed: each of the two replacements replaces every occurrence of
   its block, or leaves the text unchanged when there is none. *)
BlockReplaceEveryOccurrence ==
  [][ \A p \in Instances :
        /\ (pc[p] = "replace1" /\ pc'[p] = "replace2")
             => AllReplaced(content[p], old1, new1, patched_content'[p])
        /\ (pc[p] = "replace2" /\ pc'[p] = "open_w")
             => AllReplaced(patched_content[p], old2, new2, patched_content'[p])
    ]_vars

(* what the replacement does: r is s with the occurrences of old replaced as
   far as they do not overlap.  P: the occurrences, d: the growth per
   replacement, Shift(k): the growth caused left of position k. *)
ReplacedWithoutOverlap(s, old, new, r) ==
  LET P == Occurrences(s, old)
      m == Len(old)
      d == Len(new) - Len(old)
      Shift(k) == d * Cardinality({ j \in P : j + m <= k })
  IN  /\ P = {} => r = s
      /\ P # {} => /\ r # s
                   /\ IsPrefix(SubSeq(s, 1, Min(P)) \o new, r)
      /\ Disjoint(P, m) =>
           /\ Len(r) = Len(s) + d * Cardinality(P)
           /\ \A i \in P : MatchAt(r, new, i + Shift(i))
           /\ \A k \in 0..(Len(s) - 1) :
                (\A i \in P : ~(i <= k /\ k < i + m)) => r[k + 1 + Shift(k)] = s[k + 1]
           /\ Occurrences(r, old) = {}

(* C3, amended: a replacement leaves the text unchanged when its block does
   not occur; when it occurs the text changes and the leftmost occurrence is
   replaced; when no two occurrences overlap every occurrence is replaced,
   the text between them is kept and no occurrence is left ('AA' with
   'A' -> 'B' gives 'BB'). *)
BlockReplaceWithoutOverlap ==
  [][ /\ StrReplace(<< "A", "A" >>, << "A" >>, << "B" >>) = << "B", "B" >>
      /\ \A p \in Instances :
           /\ (pc[p] = "replace1" /\ pc'[p] = "replace2")
                => ReplacedWithoutOverlap(content[p], old1, new1, patched_content'[p])
           /\ (pc[p] = "replace2" /\ pc'[p] = "open_w")
                => ReplacedWithoutOverlap(patched_content[p], old2, new2, patched_content'[p])
    ]_vars

(* one run has replaced two occurrences of the first block and one of the second *)
BlockReplaceTwoOccurrences ==
  \E p \in Instances :
    /\ pc[p] = "open_w"
    /\ content[p] = old1 \o old1 \o old2
    /\ patched_content[p] = new1 \o new1 \o new2

----------------------------------------------------------------------------
(* C4.  Line-bounds safety: an edit whose index is not below the number of
   lines is skipped: the step neither raises nor changes the lines, for each
   of the indices 5084, 5092 and 5099; and no run ever ends in IndexError. *)
LineBoundsSafety ==
  [][ \A p \in Instances :
        /\ error'[p] # "IndexError"
        /\ (pc[p] = "fix5085" /\ pc'[p] # pc[p] /\ Len(lines[p]) <= Idx5084)
             => (lines'[p] = lines[p] /\ pc'[p] = "fix5093")
        /\ (pc[p] = "fix5093" /\ pc'[p] # pc[p] /\ Len(lines[p]) <= Idx5092)
             => (lines'[p] = lines[p] /\ pc'[p] = "fix5100")
        /\ (pc[p] = "fix5100" /\ pc'[p] # pc[p] /\ Len(lines[p]) <= Idx5099)
             => (lines'[p] = lines[p] /\ pc'[p] = "join")
    ]_vars

(* the three edits have been skipped on the empty document *)
EmptyDocumentSkipped ==
  \E p \in Instances :
    /\ script[p] = JSX
    /\ pc[p] = "join"
    /\ original.data = EmptyStr
    /\ lines[p] = << EmptyStr >>
    /\ error[p] = ""

----------------------------------------------------------------------------
(* C5.  No-op round trip: when no rule matches, a completed run leaves at
   file_path exactly the characters that were there.
   The code does not have this property: the file is read and written in
   text mode, which turns "\r\n" and "\r" into "\n" on the way in and "\n"
   into os.linesep on the way out. *)
NoOpRoundTrip ==
  \A p \in Instances :
    (pc[p] = "done" /\ NoRuleMatches(p, ContentRead)) => fileData = original.data

(* What holds instead: up to the newline translation the round trip is
   exact.  When no rule matches, the text handed to f.write is the text
   f.read returned (split and join undo each other on every text, empty or
   not, with or without a trailing line feed), and a file without "\r" on a
   platform whose os.linesep is "\n" is left as it was. *)
NoOpRoundTripOfText ==
  \A p \in Instances :
    /\ (pc[p] \in { "write", "done" } /\ NoRuleMatches(p, ContentRead))
         => Output(p) = ContentRead
    /\ (pc[p] = "done" /\ NoRuleMatches(p, ContentRead) /\ linesep = << LF >>
          /\ \A i \in 1..Len(original.data) : original.data[i] # CR)
         => fileData = original.data

----------------------------------------------------------------------------
(* C6.  A failed read is fatal before any write: a run whose read failed has
   ended, has opened nothing for writing, has printed nothing, and the file
   is as it was (still missing if it was missing).  A missing path lets the
   run get no further than the read. *)
ReadFailureIsFatal ==
  \A p \in Instances :
    /\ error[p] \in ReadErrors =>
         /\ pc[p] = "terminated"
         /\ \A k \in 1..Len(trace) : trace[k][1] # p
         /\ stdout[p] = << >>
         /\ fileExists = original.exists
         /\ fileData = original.data
    /\ (~original.exists /\ script[p] # "none") => pc[p] \in { "read", "terminated" }

(* a read of an existing file has failed *)
ReadFailed ==
  \E p \in Instances :
    /\ error[p] = "UnicodeDecodeError"
    /\ original.exists
    /\ original.data # EmptyStr

----------------------------------------------------------------------------
(* C7.  Two instances on the same path. *)

(* C7 as claimed: when both instances have completed, the file holds exactly
   what the instance that wrote last has written. *)
LastWriteWins == BothDone => fileData = Written(LastWriter)

(* C7, amended: when both instances have completed, the file starts with
   what the last writer has written.  It is exactly that when the last
   writer opened (truncated) the file after the other instance's write;
   when both had opened the file before either wrote, what the other
   instance wrote beyond the length of the last write is still there. *)
LastWriteOverlays ==
  BothDone =>
    LET q == LastWriter
        o == Other(LastWriter)
    IN  /\ IsPrefix(Written(q), fileData)
        /\ IF TraceIndex(<< o, "write" >>) < TraceIndex(<< q, "open" >>)
           THEN fileData = Written(q)
           ELSE fileData = Written(q) \o SubSeq(Written(o), Len(Written(q)) + 1, Len(Written(o)))

(* the last writer read the file while it was truncated and wrote nothing
   over the other instance's text *)
EmptyLastWriteOverLongerText ==
  /\ BothDone
  /\ Written(LastWriter) = EmptyStr
  /\ fileData = Written(Other(LastWriter))
  /\ fileData # EmptyStr

----------------------------------------------------------------------------
(* C8.  Destructive overwrite: when the write fails after the read and the
   patch succeeded, the original content is no longer on disk.
   The code does not have this property in one corner, which it owes to the
   newline translation of C5: the characters written before the failure can
   be the original ones (a file "\r" is read as "\n" and written as "\r\n",
   of which "\r" is a proper prefix). *)
WriteFailureLosesOriginal ==
  \A p \in Instances : error[p] = "WriteError" => fileData # original.data

(* What holds instead: the disk holds a proper prefix of the new text and
   nothing else, and that prefix is the original only for an original with a
   "\r" in it. *)
WriteFailureLeavesPrefix ==
  \A p \in Instances :
    error[p] = "WriteError" =>
      /\ IsPrefix(fileData, Written(p))
      /\ fileData # Written(p)
      /\ fileData = original.data => \E i \in 1..Len(original.data) : original.data[i] = CR

----------------------------------------------------------------------------
(* C9.  The fix of line 5100: when the document has more than 5099 lines and
   the line at index 5099 contains '</>', that line no longer contains '</>'
   after the edit.
   The code does not have this property: the guard of line 32 looks for
   '</ >', so a line that holds '</>' only is left as it is. *)
Line5100TagRemoved ==
  \A p \in Instances :
    (script[p] = JSX /\ pc[p] = "join") =>
      LET before == Split(content[p])
      IN  (Idx5099 < Len(before) /\ Contains(Tag, before[Idx5099 + 1]))
            => ~Contains(Tag, lines[p][Idx5099 + 1])

----------------------------------------------------------------------------
(* C10.  Frame of fix_jsx: after the three edits the list has as many lines
   as the document read, every line other than those at the indices 5084 and
   5099 is the line read (the line at 5092 too, also when it is ')}'), a
   targeted line whose guard is false is the line read, and joining the
   lines gives a text that splits into the same lines. *)
FixJsxFrame ==
  \A p \in Instances :
    /\ (script[p] = JSX /\ pc[p] = "join") =>
         LET before == Split(content[p])
             after == lines[p]
         IN  /\ Len(after) = Len(before)
             /\ \A i \in 1..Len(before) :
                  i \notin { Idx5084 + 1, Idx5099 + 1 } => after[i] = before[i]
             /\ (Cond5085(before) = "False" /\ Idx5084 < Len(before))
                  => after[Idx5084 + 1] = before[Idx5084 + 1]
             /\ (Cond5100(before) = "False" /\ Idx5099 < Len(before))
                  => after[Idx5099 + 1] = before[Idx5099 + 1]
    /\ (script[p] = JSX /\ pc[p] = "open_w") => Split(content[p]) = lines[p]

(* line 5085 was edited while line 5093, which is ')}' once stripped, and the
   other lines stayed *)
EditedAroundLine5093 ==
  \E p \in Instances :
    /\ script[p] = JSX
    /\ pc[p] = "join"
    /\ Idx5099 < Len(lines[p])
    /\ Strip(lines[p][Idx5092 + 1]) = CloseParenBrace
    /\ lines[p] # Split(content[p])

====
